---- MODULE Spec2Model ----
(***************************************************************************)
(* Model of the architecture job scrapers src/scrapperv1.py ("v1") and     *)
(* src/scrapper_simple.py ("simple").                                      *)
(*                                                                         *)
(* Python values are encoded as follows.                                   *)
(*   - a string is a sequence of tokens (a token is a TLA+ string that     *)
(*     stands for a run of characters); " " is the whitespace token and    *)
(*     "," the comma;                                                      *)
(*   - Optional[x] is a sequence: None is << >>, a present x is << x >>;   *)
(*   - the outcome of a call that may raise is a record with a field kind, *)
(*     "return" or "raise".                                                *)
(* The web is the environment: the response to each request is drawn when  *)
(* the request is made.                                                    *)
(***************************************************************************)
EXTENDS Integers, Sequences, FiniteSets, TLC

\* ---------------------------------------------------------------- bounds
MaxTextLen == 2     \* tokens in the text of a fetched contact page
MaxLinks == 2       \* anchors with an href on a fetched detail page
MaxCards == 2       \* cards on one listing page
NumLocs == 1        \* locations scanned by one run of main
MaxPlaces == 2      \* place rows in one census payload
NumPeriods == 2     \* population periods the census endpoint knows

\* ---------------------------------------------------- program constants
MAX_POPULATION == 50000
CENSUS_PERIOD == 2023

None == << >>
Some(x) == << x >>

\* All sequences over S of length at most n.
SeqUpTo(S, n) == UNION { [1..k -> S] : k \in 0..n }

\* ------------------------------------------------------------- str.strip
RECURSIVE LStrip(_)
LStrip(s) == IF s # << >> /\ Head(s) = " " THEN LStrip(Tail(s)) ELSE s

RECURSIVE RStrip(_)
RStrip(s) ==
    IF s # << >> /\ s[Len(s)] = " " THEN RStrip(SubSeq(s, 1, Len(s) - 1)) ELSE s

Strip(s) == RStrip(LStrip(s))

\* ------------------------------------------------------------- PHONE_RE
\* The tokens PHONE_RE matches; every other token holds no match.
PhoneTokens == { "(406) 555-0100", "406.555.0199" }
TextTokens == PhoneTokens \cup { "406-555-01" }

\* PHONE_RE.search(text): the first match in document order, or None.
PHONE_RE_search(text) ==
    IF \E i \in 1..Len(text) : text[i] \in PhoneTokens
    THEN LET i == CHOOSE i \in 1..Len(text) :
                    /\ text[i] \in PhoneTokens
                    /\ \A j \in 1..(i - 1) : text[j] \notin PhoneTokens
         IN  Some(text[i])
    ELSE None

\* ---------------------------------------------------------------- hrefs
Hrefs == { << "http", "://firm.example" >>,
           << "http", "://u", "@", "firm.example" >>,
           << "mailto:", "u", "@", "firm.example" >>,
           << "/", "contact" >> }

startswith(s, tok) == s # << >> /\ s[1] = tok
contains(s, tok) == \E i \in 1..Len(s) : s[i] = tok

\* scrapperv1.py line 181
QualifiesV1(href) ==
    startswith(href, "http") /\ ~contains(href, "@") /\ ~startswith(href, "mailto:")

\* scrapper_simple.py line 85 (tests the prefix "mailto", without the colon)
QualifiesSimple(href) ==
    startswith(href, "http") /\ ~contains(href, "@")
        /\ ~(startswith(href, "mailto") \/ startswith(href, "mailto:"))

\* The link test of script v.
Qualifies(v, href) == IF v = "v1" THEN QualifiesV1(href) ELSE QualifiesSimple(href)

\* The first anchor in document order whose href qualifies, or None.
FirstLink(links, v) ==
    IF \E i \in 1..Len(links) : Qualifies(v, links[i])
    THEN LET i == CHOOSE i \in 1..Len(links) :
                    Qualifies(v, links[i]) /\ \A j \in 1..(i - 1) : ~Qualifies(v, links[j])
         IN  Some(links[i])
    ELSE None

\* ------------------------------------------------------------ responses
FetchError == [kind |-> "error"]
Texts == SeqUpTo(TextTokens, MaxTextLen)
\* A detail page: its visible text and the hrefs of its anchors, in order.
DetailPages == [kind : {"page"}, text : Texts, links : SeqUpTo(Hrefs, MaxLinks)]
DetailResponses == {FetchError} \cup DetailPages
\* The firm's website: its raw content.
SitePages == [kind : {"page"}, text : Texts]
SiteResponses == {FetchError} \cup SitePages

\* ------------------------------------------------------ get_contact_info
\* The result: what the call returned, and whether it requested the website.
Returned(phone, website, fetched) ==
    [kind |-> "return", phone |-> phone, website |-> website, fetched |-> fetched]
Raised(fetched) ==
    [kind |-> "raise", phone |-> None, website |-> None, fetched |-> fetched]

\* Variant of DetailFetchFailed: the except clause is missing.
DetailFetchPropagates(v) == Raised(FALSE)

\* A detail fetch that fails: both scripts catch it.
DetailFetchFailed(v) == Returned(None, None, FALSE)

\* Variant of get_contact_info_v1: the website is requested whenever one was
\* found, and its phone wins.
get_contact_info_v1_always(detail, site) ==
    IF detail = FetchError THEN DetailFetchFailed("v1")
    ELSE LET phone == PHONE_RE_search(detail.text)
             website == FirstLink(detail.links, "v1")
         IN  IF website # None
             THEN IF site = FetchError
                  THEN Returned(phone, website, TRUE)
                  ELSE LET m2 == PHONE_RE_search(site.text)
                       IN  Returned(IF m2 # None THEN m2 ELSE phone, website, TRUE)
             ELSE Returned(phone, website, FALSE)

get_contact_info_v1(detail, site) ==
    IF detail = FetchError THEN DetailFetchFailed("v1")
    ELSE LET phone == PHONE_RE_search(detail.text)
             website == FirstLink(detail.links, "v1")
         IN  IF website # None /\ phone = None
             THEN IF site = FetchError
                  THEN Returned(phone, website, TRUE)
                  ELSE LET m2 == PHONE_RE_search(site.text)
                       IN  Returned(IF m2 # None THEN m2 ELSE phone, website, TRUE)
             ELSE Returned(phone, website, FALSE)

get_contact_info_simple(detail) ==
    IF detail = FetchError THEN DetailFetchFailed("simple")
    ELSE Returned(PHONE_RE_search(detail.text),
                  FirstLink(detail.links, "simple"), FALSE)

get_contact_info(v, detail, site) ==
    IF v = "v1" THEN get_contact_info_v1(detail, site)
    ELSE get_contact_info_simple(detail)

\* ------------------------------------------------------------- int(pop)
Digits == << "0", "1", "2", "3", "4", "5", "6", "7", "8", "9" >>
IsDigit(c) == \E d \in 1..10 : Digits[d] = c
DigitVal(c) == (CHOOSE d \in 1..10 : Digits[d] = c) - 1

RECURSIVE DigitsVal(_)
DigitsVal(s) ==
    IF s = << >> THEN 0
    ELSE 10 * DigitsVal(SubSeq(s, 1, Len(s) - 1)) + DigitVal(s[Len(s)])

\* int(s): None stands for ValueError. Surrounding whitespace and one sign are
\* accepted, then at least one digit and nothing else.
IntParse(s) ==
    LET t == Strip(s)
        signed == t # << >> /\ t[1] \in {"-", "+"}
        d == IF signed THEN Tail(t) ELSE t
    IN  IF d # << >> /\ \A i \in 1..Len(d) : IsDigit(d[i])
        THEN Some(IF signed /\ t[1] = "-" THEN 0 - DigitsVal(d) ELSE DigitsVal(d))
        ELSE None

\* --------------------------------------------------------- STATE_LOOKUP
STATE_LOOKUP ==
    << << << "Alabama" >>, "AL" >>,
       << << "Alaska" >>, "AK" >>,
       << << "Arizona" >>, "AZ" >>,
       << << "Arkansas" >>, "AR" >>,
       << << "California" >>, "CA" >>,
       << << "Colorado" >>, "CO" >>,
       << << "Connecticut" >>, "CT" >>,
       << << "Delaware" >>, "DE" >>,
       << << "District", " ", "of", " ", "Columbia" >>, "DC" >>,
       << << "Florida" >>, "FL" >>,
       << << "Georgia" >>, "GA" >>,
       << << "Hawaii" >>, "HI" >>,
       << << "Idaho" >>, "ID" >>,
       << << "Illinois" >>, "IL" >>,
       << << "Indiana" >>, "IN" >>,
       << << "Iowa" >>, "IA" >>,
       << << "Kansas" >>, "KS" >>,
       << << "Kentucky" >>, "KY" >>,
       << << "Louisiana" >>, "LA" >>,
       << << "Maine" >>, "ME" >>,
       << << "Maryland" >>, "MD" >>,
       << << "Massachusetts" >>, "MA" >>,
       << << "Michigan" >>, "MI" >>,
       << << "Minnesota" >>, "MN" >>,
       << << "Mississippi" >>, "MS" >>,
       << << "Missouri" >>, "MO" >>,
       << << "Montana" >>, "MT" >>,
       << << "Nebraska" >>, "NE" >>,
       << << "Nevada" >>, "NV" >>,
       << << "New", " ", "Hampshire" >>, "NH" >>,
       << << "New", " ", "Jersey" >>, "NJ" >>,
       << << "New", " ", "Mexico" >>, "NM" >>,
       << << "New", " ", "York" >>, "NY" >>,
       << << "North", " ", "Carolina" >>, "NC" >>,
       << << "North", " ", "Dakota" >>, "ND" >>,
       << << "Ohio" >>, "OH" >>,
       << << "Oklahoma" >>, "OK" >>,
       << << "Oregon" >>, "OR" >>,
       << << "Pennsylvania" >>, "PA" >>,
       << << "Rhode", " ", "Island" >>, "RI" >>,
       << << "South", " ", "Carolina" >>, "SC" >>,
       << << "South", " ", "Dakota" >>, "SD" >>,
       << << "Tennessee" >>, "TN" >>,
       << << "Texas" >>, "TX" >>,
       << << "Utah" >>, "UT" >>,
       << << "Vermont" >>, "VT" >>,
       << << "Virginia" >>, "VA" >>,
       << << "Washington" >>, "WA" >>,
       << << "West", " ", "Virginia" >>, "WV" >>,
       << << "Wisconsin" >>, "WI" >>,
       << << "Wyoming" >>, "WY" >> >>

\* STATE_LOOKUP.get(name): the postal code, or None.
STATE_LOOKUP_get(name) ==
    IF \E i \in 1..Len(STATE_LOOKUP) : STATE_LOOKUP[i][1] = name
    THEN Some(STATE_LOOKUP[CHOOSE i \in 1..Len(STATE_LOOKUP) : STATE_LOOKUP[i][1] = name][2])
    ELSE None

\* name.partition(","): the text before the first comma and the text after it
\* (the whole name and the empty string when there is no comma).
partition(name) ==
    IF contains(name, ",")
    THEN LET i == CHOOSE i \in 1..Len(name) :
                    name[i] = "," /\ \A j \in 1..(i - 1) : name[j] # ","
         IN  << SubSeq(name, 1, i - 1), SubSeq(name, i + 1, Len(name)) >>
    ELSE << name, << >> >>

\* ------------------------------------------------------ census payloads
PlaceNames ==
    { << "Bozeman", " ", "city", ",", " ", "Montana" >>,
      << "Asheville", " ", "city", ",", " ", "North", " ", "Carolina" >>,
      << "Ponce", " ", "zona", " ", "urbana", ",", " ", "Puerto", " ", "Rico" >> }
PopStrings ==
    { << "4", "9", "9", "9", "9" >>, << "5", "0", "0", "0", "0" >>,
      << "5", "0", "0", "0", "1" >>, << "N", "/", "A" >> }
PlaceRows == [name : PlaceNames, pop : PopStrings]

\* The periods the endpoint may serve, most recent first from CENSUS_PERIOD.
Periods == { CENSUS_PERIOD - k : k \in 0..(NumPeriods - 1) }
PeriodStatus == { "ok", "http_error", "network_error" }
\* The census endpoint: how each period answers, and the rows (after the
\* header row) it serves when it answers.
CensusWorlds(n) == [status : [Periods -> PeriodStatus], data : SeqUpTo(PlaceRows, n)]

\* --------------------------------------------------------- get_small_towns
\* Variant of WithinCeiling: the docstring's "population < MAX_POPULATION".
BelowCeiling(pop_int) == pop_int < MAX_POPULATION

\* if pop_int <= MAX_POPULATION (line 94)
WithinCeiling(pop_int) == pop_int <= MAX_POPULATION

\* The body of the loop over the rows (lines 89-98): the towns appended.
RECURSIVE small_places(_)
small_places(data) ==
    IF data = << >> THEN << >>
    ELSE LET row == Head(data)
             pop_int == IntParse(row.pop)
             parts == partition(row.name)
             state_abbr == STATE_LOOKUP_get(Strip(parts[2]))
         IN  IF pop_int # None /\ WithinCeiling(pop_int[1]) /\ state_abbr # None
             THEN << [city |-> Strip(parts[1]), state |-> state_abbr[1]] >>
                      \o small_places(Tail(data))
             ELSE small_places(Tail(data))

\* Variant of PeriodFailed: resp.raise_for_status() is missing.
PeriodFailedNetworkOnly(world) == world.status[CENSUS_PERIOD] = "network_error"

\* requests.get raised, or raise_for_status raised on the error status: the
\* exception leaves get_small_towns.
PeriodFailed(world) == world.status[CENSUS_PERIOD] # "ok"

get_small_towns(world) ==
    IF PeriodFailed(world)
    THEN [kind |-> "raise", towns |-> << >>]
    ELSE [kind |-> "return", towns |-> small_places(world.data)]

\* =========================================================== the pipeline
\* LOCATIONS of scrapper_simple.py.
LOCATIONS ==
    << [city |-> << "Fort", " ", "Worth" >>, state |-> "TX"],
       [city |-> << "Bozeman" >>, state |-> "MT"],
       [city |-> << "Asheville" >>, state |-> "NC"] >>

\* The run scans the first NumLocs of them.
ConfiguredLocations ==
    SubSeq(LOCATIONS, 1, IF NumLocs < Len(LOCATIONS) THEN NumLocs ELSE Len(LOCATIONS))

\* ---- listing pages
\* The text of a card's firm and role elements, before get_text(strip=True).
FirmTexts == { << "Acme" >>, << " " >> }
RoleTexts == { << " ", "Project", " ", "Architect", " " >> }
\* A card: the firm element, the role element and the href of its first
\* anchor, each None when select_one (or card.a) finds nothing.
Cards == [firm : {None} \cup { Some(t) : t \in FirmTexts },
          role : {None} \cup { Some(t) : t \in RoleTexts },
          href : {None, Some(<< "/", "jobs", "/", "1" >>)}]
\* A listing response: the request raised, or a page of n cards came back
\* under some status. The page is read card by card: each card is drawn when
\* the loop reaches it, and the rest of the page when the loop is abandoned.
ListingResponses ==
    {FetchError} \cup [kind : {"page"}, status : {"ok", "http_error"}, n : 0..MaxCards]

\* What main's run draws for a posting's detail page and the firm's website.
RunDetailResponses ==
    { [kind |-> "page", text |-> << "(406) 555-0100" >>,
       links |-> << << "http", "://firm.example" >> >>] }
RunSiteResponses == { FetchError }
\* What main's run draws for the census endpoint.
RunCensusWorlds ==
    { w \in CensusWorlds(NumLocs) :
        \A i \in 1..Len(w.data) : w.data[i].name[1] \in {"Bozeman", "Ponce"} }

\* if not (firm_tag and role_tag): continue. A Tag is truthy whatever its
\* contents, so the test is on presence only.
MissingField(card) == card.firm = None \/ card.role = None
\* card.a["href"] / card.select_one("a")["href"] on a card without an anchor
\* raises TypeError.
MissingAnchor(card) == ~MissingField(card) /\ card.href = None
WellFormed(card) == ~MissingField(card) /\ card.href # None

\* JobRow(firm_name, role_title, phone, website); loc and src record which
\* scraper call discovered the row (they are not columns of the output).
JobRow(card, ci, loc, s) ==
    [firm_name |-> Strip(card.firm[1]), role_title |-> Strip(card.role[1]),
     phone |-> ci.phone, website |-> ci.website, loc |-> loc, src |-> s]

Key(r) == << r.firm_name, r.role_title >>

\* Variant of drop_duplicates: keep="last".
RECURSIVE drop_duplicates_keep_last(_)
drop_duplicates_keep_last(rs) ==
    IF rs = << >> THEN << >>
    ELSE IF \E i \in 2..Len(rs) : Key(rs[i]) = Key(Head(rs))
         THEN drop_duplicates_keep_last(Tail(rs))
         ELSE << Head(rs) >> \o drop_duplicates_keep_last(Tail(rs))

\* df.drop_duplicates(subset=["firm_name", "role_title"]): keep="first".
RECURSIVE drop_duplicates(_)
drop_duplicates(rs) ==
    IF rs = << >> THEN << >>
    ELSE LET init == SubSeq(rs, 1, Len(rs) - 1)
             last == rs[Len(rs)]
         IN  IF \E i \in 1..Len(init) : Key(init[i]) = Key(last)
             THEN drop_duplicates(init)
             ELSE Append(drop_duplicates(init), last)

\* Variant of FetchFailureCaught: the listing request is outside the try.
FetchFailurePropagates(v) == FALSE

\* except Exception around the listing request: both scripts catch.
FetchFailureCaught(v) == TRUE

\* Variant of InterruptPc: the interrupt ends the loops and main goes on to
\* dedup and export what it has.
InterruptExportsPartial(v) == "finish"

\* Where KeyboardInterrupt ends the run: v1 catches it at the top level and
\* prints "Aborted by user."; simple does not catch it.
InterruptPc(v) == IF v = "v1" THEN "aborted" ELSE "crashed"

VARIABLES
    variant,      \* which script runs: "v1" or "simple"
    pc,           \* where main is
    towns,        \* the locations main iterates over
    locIdx,       \* index of the current location
    src,          \* the scraper main is in: "archinect" or "aia"
    nCards,       \* number of cards on the listing page last fetched
    cardIdx,      \* index of the card the scraper is at
    local,        \* simple: the scraper's local list rows
    rows,         \* main's rows / all_jobs
    output,       \* the frame written to OUTPUT_FILE, None before
    wellFormed,   \* well-formed cards on the listing page last fetched
    yielded,      \* rows the scraper call last made has produced
    ended,        \* how the scraper call ended, "none" while main is elsewhere
    archFailed,   \* locations whose Archinect listing request raised
    crashSite,    \* where an uncaught exception left main, None if none did
    interrupted,  \* KeyboardInterrupt was raised
    cin,          \* get_contact_info alone: its inputs
    cres,         \* get_contact_info alone: its outcome, None before the call
    census        \* the census endpoint when fixed beforehand, None otherwise

vars == << variant, pc, towns, locIdx, src, nCards, cardIdx, local, rows, output,
           wellFormed, yielded, ended, archFailed, crashSite, interrupted,
           cin, cres, census >>

aloneVars == << cin, cres, census >>

ContactIdle == cin = None /\ cres = None

\* The census endpoints main may meet.
CensusOffered == IF census = None THEN RunCensusWorlds ELSE { census[1] }

\* ---- main
Init ==
    /\ variant \in {"v1", "simple"}
    /\ pc = IF variant = "v1" THEN "towns"
            ELSE IF ConfiguredLocations = << >> THEN "finish" ELSE "fetch"
    /\ towns = IF variant = "v1" THEN << >> ELSE ConfiguredLocations
    /\ locIdx = 1 /\ src = "archinect"
    /\ nCards = 0 /\ cardIdx = 1 /\ local = << >> /\ rows = << >>
    /\ output = None /\ wellFormed = 0 /\ yielded = 0 /\ ended = "none"
    /\ archFailed = {} /\ crashSite = None /\ interrupted = FALSE
    /\ ContactIdle /\ census = None

\* An exception nobody catches leaves main.
Crash(site) ==
    /\ pc' = "crashed"
    /\ crashSite' = Some(site)

\* v1, lines 199-200: towns = get_small_towns().
GetSmallTowns ==
    /\ pc = "towns"
    /\ \E world \in CensusOffered :
         LET r == get_small_towns(world)
         IN  IF r.kind = "raise"
             THEN Crash("census") /\ UNCHANGED towns
             ELSE /\ towns' = r.towns
                  /\ pc' = IF r.towns = << >> THEN "finish" ELSE "fetch"
                  /\ UNCHANGED crashSite
    /\ UNCHANGED << variant, locIdx, src, nCards, cardIdx, local, rows, output,
                    wellFormed, yielded, ended, archFailed, interrupted >>
    /\ UNCHANGED aloneVars

\* The scraper call is over and main has taken what it returned.
EndScrape(how, returned) ==
    /\ ended' = how
    /\ rows' = rows \o returned
    /\ local' = << >>
    /\ pc' = "next"
    /\ UNCHANGED << src, locIdx >>

\* The listing request of scrape_archinect / scrape_aia(_career_center).
Fetch ==
    /\ pc = "fetch"
    /\ UNCHANGED << cardIdx, wellFormed, yielded >>
    /\ \E r \in ListingResponses :
         IF r = FetchError
         THEN /\ archFailed' =
                     IF src = "archinect" THEN archFailed \cup {locIdx} ELSE archFailed
              /\ nCards' = 0
              /\ IF FetchFailureCaught(variant)
                 THEN EndScrape("fetch_error", << >>) /\ UNCHANGED crashSite
                 ELSE Crash("fetch") /\ UNCHANGED << ended, rows, local >>
         ELSE /\ nCards' = r.n /\ local' = << >>
              /\ pc' = "cards"
              /\ UNCHANGED << ended, rows, archFailed, crashSite >>
    /\ UNCHANGED << variant, towns, locIdx, src, output, interrupted >>
    /\ UNCHANGED aloneVars

CountWellFormed(cs) == Cardinality({ i \in 1..Len(cs) : WellFormed(cs[i]) })

\* An exception inside the loop over the cards, the cards after it being
\* rest: v1's scrapers have no handler there, simple's catch it and return
\* the rows gathered so far.
CardException(rest) ==
    /\ wellFormed' = wellFormed + CountWellFormed(rest)
    /\ IF variant = "v1"
       THEN Crash("card") /\ UNCHANGED << ended, rows, local >>
       ELSE EndScrape("exception", local) /\ UNCHANGED crashSite
    /\ UNCHANGED << cardIdx, yielded, src, locIdx >>

\* One pass of the loop over the cards.
Card ==
    /\ pc = "cards" /\ cardIdx <= nCards
    /\ \E card \in Cards :
         IF MissingField(card)
         THEN /\ cardIdx' = cardIdx + 1
              /\ UNCHANGED << pc, ended, rows, local, crashSite, wellFormed, yielded >>
         ELSE IF MissingAnchor(card)
         THEN \E rest \in [1..(nCards - cardIdx) -> Cards] : CardException(rest)
         ELSE \E detail \in RunDetailResponses, site \in RunSiteResponses :
                LET ci == get_contact_info(variant, detail, site)
                    row == JobRow(card, ci, locIdx, src)
                IN  IF ci.kind = "raise"
                    THEN \E rest \in [1..(nCards - cardIdx) -> Cards] :
                           CardException(<< card >> \o rest)
                    ELSE /\ cardIdx' = cardIdx + 1
                         /\ wellFormed' = wellFormed + 1
                         /\ yielded' = yielded + 1
                         /\ rows' = IF variant = "v1" THEN Append(rows, row) ELSE rows
                         /\ local' = IF variant = "v1" THEN local ELSE Append(local, row)
                         /\ UNCHANGED << pc, ended, crashSite >>
    /\ UNCHANGED << variant, towns, locIdx, src, nCards, output, archFailed,
                    interrupted >>
    /\ UNCHANGED aloneVars

\* The loop over the cards is exhausted: the scraper returns.
EndOfPage ==
    /\ pc = "cards" /\ cardIdx > nCards
    /\ EndScrape("exhausted", local)
    /\ UNCHANGED << variant, towns, nCards, cardIdx, output, wellFormed, yielded,
                    archFailed, crashSite, interrupted >>
    /\ UNCHANGED aloneVars

\* main's loops go on: to the next source, the next location, or past them.
NextSource ==
    /\ pc = "next"
    /\ src' = IF src = "archinect" THEN "aia" ELSE "archinect"
    /\ locIdx' = IF src = "archinect" THEN locIdx ELSE locIdx + 1
    /\ pc' = IF src = "aia" /\ locIdx = Len(towns) THEN "finish" ELSE "fetch"
    /\ nCards' = 0 /\ cardIdx' = 1 /\ wellFormed' = 0 /\ yielded' = 0
    /\ ended' = "none"
    /\ UNCHANGED << variant, towns, local, rows, output, archFailed, crashSite,
                    interrupted >>
    /\ UNCHANGED aloneVars

\* After the loop over the locations: nothing gathered, or dedup and export.
Finish ==
    /\ pc = "finish"
    /\ IF rows = << >>
       THEN pc' = "nodata" /\ UNCHANGED output
       ELSE pc' = "saved" /\ output' = Some(drop_duplicates(rows))
    /\ UNCHANGED << variant, towns, locIdx, src, nCards, cardIdx, local, rows,
                    wellFormed, yielded, ended, archFailed, crashSite, interrupted >>
    /\ UNCHANGED aloneVars

Running == pc \in {"towns", "fetch", "cards", "next", "finish"}

\* KeyboardInterrupt while main runs.
Interrupt ==
    /\ Running
    /\ interrupted' = TRUE
    /\ pc' = InterruptPc(variant)
    /\ crashSite' = IF InterruptPc(variant) = "crashed" THEN Some("interrupt") ELSE crashSite
    /\ UNCHANGED << variant, towns, locIdx, src, nCards, cardIdx, local, rows, output,
                    wellFormed, yielded, ended, archFailed >>
    /\ UNCHANGED aloneVars

Next ==
    GetSmallTowns \/ Fetch \/ Card \/ EndOfPage \/ NextSource \/ Finish \/ Interrupt

Spec == Init /\ [][Next]_vars

\* ================================================= get_small_towns alone
\* v1's main up to the end of line 199, against every census endpoint.
InitTowns ==
    /\ variant = "v1" /\ pc = "towns" /\ towns = << >>
    /\ locIdx = 1 /\ src = "archinect"
    /\ nCards = 0 /\ cardIdx = 1 /\ local = << >> /\ rows = << >>
    /\ output = None /\ wellFormed = 0 /\ yielded = 0 /\ ended = "none"
    /\ archFailed = {} /\ crashSite = None /\ interrupted = FALSE
    /\ ContactIdle
    /\ census \in { Some(w) : w \in CensusWorlds(MaxPlaces) }

NextTowns == GetSmallTowns

SpecTowns == InitTowns /\ [][NextTowns]_vars

\* ================================================ get_contact_info alone
\* One call of get_contact_info, against every detail page and website.
InitContact ==
    /\ variant \in {"v1", "simple"}
    /\ pc = "idle" /\ towns = << >>
    /\ locIdx = 1 /\ src = "archinect"
    /\ nCards = 0 /\ cardIdx = 1 /\ local = << >> /\ rows = << >>
    /\ output = None /\ wellFormed = 0 /\ yielded = 0 /\ ended = "none"
    /\ archFailed = {} /\ crashSite = None /\ interrupted = FALSE
    /\ census = None
    /\ cin \in { Some([detail |-> d, site |-> w]) :
                    d \in DetailResponses, w \in SiteResponses }
    /\ cres = None

ContactCall ==
    /\ cin # None /\ cres = None
    /\ cres' = Some(get_contact_info(variant, cin[1].detail, cin[1].site))
    /\ UNCHANGED << variant, pc, towns, locIdx, src, nCards, cardIdx, local, rows,
                    output, wellFormed, yielded, ended, archFailed, crashSite,
                    interrupted, cin, census >>

NextContact == ContactCall

SpecContact == InitContact /\ [][NextContact]_vars

\* ================================================================ claims
Tagged(rs, l, s) == SelectSeq(rs, LAMBDA r : r.loc = l /\ r.src = s)
InSeq(x, rs) == \E i \in 1..Len(rs) : rs[i] = x
\* Indices of the rows that are the first of their key.
FirstOfKey(rs) == { i \in 1..Len(rs) : \A j \in 1..(i - 1) : Key(rs[j]) # Key(rs[i]) }
\* r was appended by a scraper call main makes no later than the one of q.
NotAfter(r, q) ==
    \/ r.loc < q.loc
    \/ r.loc = q.loc /\ (r.src = "archinect" \/ q.src = "aia")

C2_SourceIsolation ==
    /\ crashSite # Some("fetch")
    /\ \A l \in archFailed :
         /\ Tagged(rows, l, "archinect") = << >>
         /\ (locIdx = l /\ src = "archinect") => (pc = "next" \/ interrupted)
         /\ (pc = "next" /\ locIdx = l /\ src = "aia") =>
                Len(Tagged(rows, l, "aia")) = yielded
         /\ pc = "saved" =>
                \A i \in 1..Len(rows) :
                    (rows[i].loc = l /\ rows[i].src = "aia") =>
                        \E j \in 1..i :
                            Key(rows[j]) = Key(rows[i]) /\ InSeq(rows[j], output[1])

\* Archinect raised for a location, AIA gave rows for it, and main exported.
C2_Witness ==
    /\ pc = "saved"
    /\ \E l \in archFailed : Tagged(rows, l, "aia") # << >>

\* C3: a listing scraper never raises to main, and a scraper call that met a
\* failure (the request raised, or an expected element was missing) hands
\* main no rows.
C3_ScraperNeverRaises ==
    /\ crashSite \notin { Some("fetch"), Some("card") }
    /\ (pc = "next" /\ ended \in {"fetch_error", "exception"}) => yielded = 0

\* C4: get_contact_info never raises; when the detail request fails, or the
\* detail page holds neither a phone match nor a qualifying link, phone and
\* website are both None; when the website request fails, phone is None and
\* website is the link found on the detail page.
C4_ContactNeverRaises ==
    cres # None =>
        LET d == cin[1].detail
            w == cin[1].site
            r == cres[1]
        IN  /\ r.kind = "return"
            /\ d = FetchError => (r.phone = None /\ r.website = None)
            /\ ( /\ d # FetchError
                 /\ \A i \in 1..Len(d.text) : d.text[i] \notin PhoneTokens
                 /\ \A i \in 1..Len(d.links) : ~QualifiesV1(d.links[i]) )
                   => (r.phone = None /\ r.website = None)
            /\ (r.fetched /\ w = FetchError) =>
                   (r.phone = None /\ r.website = FirstLink(d.links, "v1"))

\* The website was requested and the request failed.
C4_Witness ==
    /\ cres # None /\ cres[1].kind = "return"
    /\ cres[1].fetched /\ cin[1].site = FetchError
    /\ cres[1].phone = None /\ cres[1].website # None

\* The detail page gave no phone and gave a website.
NeedsFallback(d) ==
    /\ d # FetchError
    /\ PHONE_RE_search(d.text) = None
    /\ FirstLink(d.links, "v1") # None

C8_NamesNonEmpty ==
    \A rs \in { rows, local, IF output = None THEN << >> ELSE output[1] } :
        \A i \in 1..Len(rs) : rs[i].firm_name # << >> /\ rs[i].role_title # << >>

\* C9: a card that lacks the firm element, the role element or the anchor is
\* the only card skipped: no exception leaves the loop over the cards, and
\* when the scraper call is over every well-formed card of the page has its
\* row in rows.
C9_MalformedCardIsolated ==
    /\ crashSite # Some("card")
    /\ pc = "next" => Len(Tagged(rows, locIdx, src)) = wellFormed

\* The row of a place that get_small_towns keeps.
TownOf(row) ==
    [city |-> Strip(partition(row.name)[1]),
     state |-> STATE_LOOKUP_get(Strip(partition(row.name)[2]))[1]]
\* The count parses, is at most the ceiling, and the region has a code.
Kept(row) ==
    /\ IntParse(row.pop) # None
    /\ IntParse(row.pop)[1] <= MAX_POPULATION
    /\ STATE_LOOKUP_get(Strip(partition(row.name)[2])) # None

====
